---- MODULE Spec2Model ----
(***************************************************************************)
(* Verification model of mk (schctl/mk): the session / policy state        *)
(* machine (UserSession::run, App::check, App::exec), the older command    *)
(* paths (App::exec of src/app.rs, CommandExecutor) and the crypt guard    *)
(* of mk-crypt.                                                            *)
(*                                                                         *)
(* Time is counted in seconds.  The clock is read at the grid points       *)
(* ClockValues, chosen so that for a refresh interval of whole minutes the *)
(* readings T + I - 1, T + I and T + I + 1 all occur.                      *)
(***************************************************************************)
EXTENDS Integers, Sequences, FiniteSets, TLC

\* ------------------------------------------------------------------ bounds
MaxTime == 61
MaxTimeout == 1
NumThreads == 2
MaxRegs == 2
MaxMsgs == 2
MaxInstant == 601
MaxSecs == 86401
MaxStamp == 60
MaxEntries == 2
MaxCookie == 1
IntBits == 8

\* --------------------------------------------------------------- constants
None == -1
SecsPerMinute == 60

\* login names known to the identity directory
Names == {"alice", "root", "bob"}
\* the identity the session was built for (cfg.auth.get_user())
User == "alice"

ClockValues == {t \in 0..MaxTime : (t % SecsPerMinute) \in {0, 1, SecsPerMinute - 1}}
Timeouts == 0..MaxTimeout

VARIABLES
    now,          \* SystemTime::now(), seconds since the epoch
    last_active,  \* UserSession.state.last_active (None or a time)
    timeout,      \* Rules.timeout, minutes
    no_auth,      \* Rules.no_auth
    permitted,    \* Rules.permitted / Permits.targets
    all_targets,  \* Permits.all_targets
    last,         \* what the most recent operation did
    CRYPT_LOCK,   \* mk-crypt: static AtomicBool
    static_buf,   \* libcrypt's static output buffer
    pc,           \* per thread: position inside crypt()
    arg,          \* per thread: the (phrase, setting) input of the call
    ret,          \* per thread: result of the last finished call
    racing,       \* per thread: the native call overlapped another one
    GLOBAL_CONV_PTRS, \* mk-pam: Mutex<HashMap<c_int, Conversation>> contents
    conv_lock,    \* the registry Mutex: 0 when free, else the holding thread
    poisoned,     \* the registry Mutex was poisoned by a panic under the lock
    handle,       \* per thread: the mk-pam Handle it owns
    conv,         \* per thread: position and locals inside __raw_pam_conv
    op_last,      \* the most recent Handle operation and its result
    auth_last,    \* the most recent PamAuthenticator::authenticate
    auth_kind,    \* which local-password authenticator the instance is
    shadow_feature, \* the build has the shadow feature ("sdw" / "shadow")
    users,        \* the authenticator's HashMap<Uid, Instant>
    inow,         \* Instant::now(), seconds
    pw_last,      \* the most recent local-password authenticate
    dur,          \* one Option<Duration>, its resolution, cookie and recovery
    files,        \* /var/run/mk/sess: path |-> the i64 cookie in the file
    saved,        \* per (name, ppid): the State most recently saved for it
    app,          \* the running invocation: its key and session State
    ENT_LOCK,     \* mk-pwd: static Mutex, 0 when free, else the holding thread
    pwent_buf,    \* libc's static passwd record that getpwent points into
    static_shared, \* getpwuid / getpwnam reuse the getpwent record
    entries,      \* per thread: its Entries iterator and position in next()
    recovered,    \* the persisted record the session's State was read from
    caller,       \* App::new: the login name of getuid()
    proc,         \* the uid and gid the mk process itself runs with
    cmd           \* the most recent command launched and its credentials

sessVars == <<now, last_active, timeout, no_auth, permitted, all_targets, last>>
cryptVars == <<CRYPT_LOCK, static_buf, pc, arg, ret, racing>>
pamVars == <<GLOBAL_CONV_PTRS, conv_lock, poisoned, handle, conv, op_last,
            auth_last>>
authVars == <<auth_kind, shadow_feature, users, inow, pw_last>>
durVars == <<dur>>
storeVars == <<files, saved, app>>
entVars == <<ENT_LOCK, pwent_buf, static_shared, entries>>
appVars == <<recovered, caller, proc, cmd>>
laterVars == <<authVars, durVars, storeVars, entVars, appVars>>
vars == <<now, last_active, timeout, no_auth, permitted, all_targets, last,
          CRYPT_LOCK, static_buf, pc, arg, ret, racing,
          GLOBAL_CONV_PTRS, conv_lock, poisoned, handle, conv, op_last,
          auth_last, auth_kind, shadow_feature, users, inow, pw_last,
          dur, files, saved, app,
          ENT_LOCK, pwent_buf, static_shared, entries,
          recovered, caller, proc, cmd>>

\* ================================================================ session

\* Rules::get_timeout: Duration::from_secs(self.timeout * 60); the product
\* stays far below the u64 range for every timeout in Timeouts
get_timeout == timeout * SecsPerMinute

\* the permission test at the head of UserSession::run
Permitted(target) == (User = target) \/ (target \in permitted)

\* App::check
check_NoAllTargets(target) == (caller = target) \/ (target \in permitted)
check(target) == (caller = target) \/ (target \in permitted) \/ all_targets

\* the staleness test of UserSession::run: Some(s), duration_since(s) is Ok
\* (the clock is not behind s) and the duration exceeds the timeout; or None
NeedsValidation_Geq(t, ts) ==
    IF ts # None THEN (t >= ts /\ t - ts >= get_timeout) ELSE TRUE
NeedsValidation_Always(t, ts) == TRUE
NeedsValidation(t, ts) ==
    IF ts # None THEN (t >= ts /\ t - ts > get_timeout) ELSE TRUE

\* Authenticator::session: the backend's own bracket may fail before the
\* closure is called; otherwise the closure's result is returned
AuthSession(sres) ==
    IF sres = "bracket_fail"
    THEN [events |-> <<"session">>, end |-> "SessionFailed"]
    ELSE [events |-> <<"session", "work">>,
          end |-> IF sres = "work_ok" THEN "Ok(Ok)" ELSE "Ok(Err)"]

\* the re-validation block of UserSession::run
Revalidate_StampOnFail(t, ts, vres) ==
    IF no_auth THEN [events |-> <<>>, failed |-> FALSE, ts |-> ts]
    ELSE IF NeedsValidation(t, ts)
         THEN IF vres = "ok"
              THEN [events |-> <<"validate_ok">>, failed |-> FALSE, ts |-> t]
              ELSE [events |-> <<"validate_fail">>, failed |-> TRUE, ts |-> t]
         ELSE [events |-> <<>>, failed |-> FALSE, ts |-> t]
Revalidate_StampOnlyValidated(t, ts, vres) ==
    IF no_auth THEN [events |-> <<>>, failed |-> FALSE, ts |-> ts]
    ELSE IF NeedsValidation(t, ts)
         THEN IF vres = "ok"
              THEN [events |-> <<"validate_ok">>, failed |-> FALSE, ts |-> t]
              ELSE [events |-> <<"validate_fail">>, failed |-> TRUE, ts |-> ts]
         ELSE [events |-> <<>>, failed |-> FALSE, ts |-> ts]
Revalidate_IgnoreNoAuth(t, ts, vres) ==
    IF NeedsValidation(t, ts)
    THEN IF vres = "ok"
         THEN [events |-> <<"validate_ok">>, failed |-> FALSE, ts |-> t]
         ELSE [events |-> <<"validate_fail">>, failed |-> TRUE, ts |-> ts]
    ELSE [events |-> <<>>, failed |-> FALSE, ts |-> t]
Revalidate(t, ts, vres) ==
    IF no_auth THEN [events |-> <<>>, failed |-> FALSE, ts |-> ts]
    ELSE IF NeedsValidation(t, ts)
         THEN IF vres = "ok"
              THEN [events |-> <<"validate_ok">>, failed |-> FALSE, ts |-> t]
              ELSE [events |-> <<"validate_fail">>, failed |-> TRUE, ts |-> ts]
         ELSE [events |-> <<>>, failed |-> FALSE, ts |-> t]

\* UserSession::run from the re-validation block on: validate()? returns
\* early on failure, then the timestamp is set and auth.session is entered
run_session(t, ts, vres, sres) ==
    LET rv == Revalidate(t, ts, vres)
    IN IF rv.failed
       THEN [events |-> rv.events, end |-> "ValidateFailed", ts |-> rv.ts]
       ELSE LET s == AuthSession(sres)
            IN [events |-> rv.events \o s.events, end |-> s.end, ts |-> rv.ts]

\* UserSession::run
run_AuthFirst(target, t, ts, vres, sres) ==
    LET rv == Revalidate(t, ts, vres)
    IN IF rv.failed
       THEN [events |-> rv.events, end |-> "ValidateFailed", ts |-> rv.ts]
       ELSE IF ~Permitted(target)
            THEN [events |-> rv.events, end |-> "PermissionDenied", ts |-> rv.ts]
            ELSE LET s == AuthSession(sres)
                 IN [events |-> rv.events \o s.events, end |-> s.end, ts |-> rv.ts]
run_LateDeny(target, t, ts, vres, sres) ==
    LET r == run_session(t, ts, vres, sres)
    IN IF ~Permitted(target)
       THEN [events |-> r.events, end |-> "PermissionDenied", ts |-> ts]
       ELSE r
run(target, t, ts, vres, sres) ==
    IF ~Permitted(target)
    THEN [events |-> <<>>, end |-> "PermissionDenied", ts |-> ts]
    ELSE run_session(t, ts, vres, sres)

\* App::exec of src/cli/app.rs: App::check, then UserSession::run with the
\* command as the work closure.  The session of this revision is built from
\* (auth, policy.session) only: its permission test is App::check, so run
\* continues at the re-validation block.
exec(target, t, ts, vres, sres) ==
    IF ~check(target)
    THEN [events |-> <<"check">>, end |-> "PermissionDenied", ts |-> ts]
    ELSE LET r == run_session(t, ts, vres, sres)
         IN [events |-> <<"check">> \o r.events, end |-> r.end, ts |-> r.ts]

\* App::exec of src/app.rs: authenticate the origin, then exec the command;
\* the permission test is a TODO
old_exec(ares) ==
    IF ares # "ok"
    THEN [events |-> <<"authenticate_fail">>, end |-> "AuthFailed"]
    ELSE [events |-> <<"authenticate_ok", "work">>, end |-> "Exec"]

\* CommandExecutor::verify_env: authenticate the origin; the permission test
\* is a TODO
verify_env(ares) ==
    IF ares # "ok"
    THEN [events |-> <<"authenticate_fail">>, end |-> "AuthFailed"]
    ELSE [events |-> <<"authenticate_ok">>, end |-> "Ok"]

\* CommandExecutor::exec_cmd / exec_process: verify_env()?, then build and
\* start the command
exec_cmd(ares) ==
    LET v == verify_env(ares)
    IN IF v.end # "Ok" THEN v
       ELSE [events |-> v.events \o <<"work">>, end |-> "Exec"]

\* the record kept of an operation: what was asked, when, the timestamp on
\* entry, the calls made in order, the result, and whether the operation
\* before it was a run in which validate succeeded and work was executed
Validated(rec) ==
    /\ rec.op \in {"run", "exec"}
    /\ \E i \in 1..Len(rec.events) : rec.events[i] = "validate_ok"
    /\ \E i \in 1..Len(rec.events) : rec.events[i] = "work"

Record(op, target, r) ==
    [op |-> op, target |-> target, at |-> now, before |-> last_active,
     events |-> r.events, end |-> r.end, after_validated |-> Validated(last)]

ValidateResults == {"ok", "fail"}
SessionResults == {"bracket_fail", "work_ok", "work_err"}

\* a caller invokes UserSession::run(target, work)
Run(target, vres, sres) ==
    LET r == run(target, now, last_active, vres, sres)
    IN /\ last_active' = r.ts
       /\ last' = Record("run", target, r)
       /\ UNCHANGED <<now, timeout, no_auth, permitted, all_targets>>
       /\ UNCHANGED <<cryptVars, pamVars, laterVars>>

AppExec(target, vres, sres) ==
    LET r == exec(target, now, last_active, vres, sres)
    IN /\ last_active' = r.ts
       /\ last' = Record("exec", target, r)
       /\ UNCHANGED <<now, timeout, no_auth, permitted, all_targets>>
       /\ UNCHANGED <<cryptVars, pamVars, laterVars>>

OldAppExec(target, ares) ==
    /\ last' = Record("old_exec", target, old_exec(ares))
    /\ UNCHANGED <<now, last_active, timeout, no_auth, permitted, all_targets>>
    /\ UNCHANGED <<cryptVars, pamVars, laterVars>>

CommandExec(target, ares) ==
    /\ last' = Record("exec_cmd", target, exec_cmd(ares))
    /\ UNCHANGED <<now, last_active, timeout, no_auth, permitted, all_targets>>
    /\ UNCHANGED <<cryptVars, pamVars, laterVars>>

\* the system clock moves (SystemTime is not monotonic)
Tick(t) ==
    /\ t # now
    /\ now' = t
    /\ UNCHANGED <<last_active, timeout, no_auth, permitted, all_targets, last>>
    /\ UNCHANGED <<cryptVars, pamVars, laterVars>>

NoRecord ==
    [op |-> "none", target |-> User, at |-> 0, before |-> None,
     events |-> <<>>, end |-> "none", after_validated |-> FALSE]

\* the timestamps a session can be recovered with (State::try_recover)
RecoveredStamps == {None, 0}

\* UserSession::new / recover_or_new with a configuration chosen from the
\* policy file
SessInit ==
    /\ now \in ClockValues
    /\ last_active \in RecoveredStamps
    /\ timeout \in Timeouts
    /\ no_auth \in BOOLEAN
    /\ permitted \in SUBSET (Names \ {User})
    /\ all_targets \in BOOLEAN
    /\ last = NoRecord

\* one fixed session, for the specification of the crypt guard
SessFixed ==
    /\ now = 0
    /\ last_active = None
    /\ timeout = 0
    /\ no_auth = FALSE
    /\ permitted = {}
    /\ all_targets = FALSE
    /\ last = NoRecord

\* ============================================================ crypt guard

Threads == 1..NumThreads
\* inputs of a call: two (phrase, setting) pairs, and one holding a nul byte
CryptInputs == {"p1", "p2", "nul"}
\* what the native routine leaves in its static buffer
BufValues == {"h1", "h2", "garbage"}
Hash(a) == IF a = "p1" THEN "h1" ELSE "h2"

\* crypt(): `if CRYPT_LOCK.load(SeqCst) { return Err(InvalidPtr) }`
CryptLoad(t, a) ==
    /\ pc[t] = "idle"
    /\ arg' = [arg EXCEPT ![t] = a]
    /\ IF CRYPT_LOCK
       THEN /\ ret' = [ret EXCEPT ![t] = "InvalidPtr"]
            /\ pc' = pc
       ELSE /\ ret' = [ret EXCEPT ![t] = "none"]
            /\ pc' = [pc EXCEPT ![t] = "store"]
    /\ UNCHANGED <<CRYPT_LOCK, static_buf, racing>>
    /\ UNCHANGED <<sessVars, pamVars, laterVars>>

\* crypt(): `CRYPT_LOCK.store(true, SeqCst)`
CryptStore(t) ==
    /\ pc[t] = "store"
    /\ CRYPT_LOCK' = TRUE
    /\ pc' = [pc EXCEPT ![t] = "cstring"]
    /\ UNCHANGED <<static_buf, arg, ret, racing>>
    /\ UNCHANGED <<sessVars, pamVars, laterVars>>

\* crypt(): `CString::new(phrase)?; CString::new(setting)?`
CryptCString(t) ==
    /\ pc[t] = "cstring"
    /\ IF arg[t] = "nul"
       THEN /\ ret' = [ret EXCEPT ![t] = "NulByte"]
            /\ pc' = [pc EXCEPT ![t] = "idle"]
       ELSE /\ ret' = ret
            /\ pc' = [pc EXCEPT ![t] = "native"]
    /\ UNCHANGED <<CRYPT_LOCK, static_buf, arg, racing>>
    /\ UNCHANGED <<sessVars, pamVars, laterVars>>

\* crypt(): control enters ffi::crypt
CryptNativeEnter(t) ==
    /\ pc[t] = "native"
    /\ pc' = [pc EXCEPT ![t] = "incall"]
    /\ racing' = [u \in Threads |->
                    IF u = t THEN \E v \in Threads \ {t} : pc[v] = "incall"
                    ELSE racing[u] \/ pc[u] = "incall"]
    /\ UNCHANGED <<CRYPT_LOCK, static_buf, arg, ret>>
    /\ UNCHANGED <<sessVars, pamVars, laterVars>>

\* crypt(): ffi::crypt returns a pointer into its static buffer, or null;
\* two overlapping calls race on the buffer and leave any content in it
CryptNativeExit(t, out, junk) ==
    /\ pc[t] = "incall"
    /\ IF out = "null"
       THEN /\ static_buf' = static_buf
            /\ pc' = [pc EXCEPT ![t] = "clear_null"]
       ELSE /\ static_buf' = IF racing[t] THEN junk ELSE Hash(arg[t])
            /\ pc' = [pc EXCEPT ![t] = "clear"]
    /\ UNCHANGED <<CRYPT_LOCK, arg, ret, racing>>
    /\ UNCHANGED <<sessVars, pamVars, laterVars>>

\* crypt(): `CRYPT_LOCK.store(false, SeqCst)`
CryptClear(t) ==
    /\ pc[t] \in {"clear", "clear_null"}
    /\ CRYPT_LOCK' = FALSE
    /\ pc' = [pc EXCEPT ![t] = IF pc[t] = "clear" THEN "ret" ELSE "ret_null"]
    /\ UNCHANGED <<static_buf, arg, ret, racing>>
    /\ UNCHANGED <<sessVars, pamVars, laterVars>>

\* crypt(): the null test and `CStr::from_ptr(encrypted).to_str()?`
CryptReturn(t) ==
    /\ pc[t] \in {"ret", "ret_null"}
    /\ ret' = [ret EXCEPT ![t] =
                 IF pc[t] = "ret_null" THEN "InvalidPtr"
                 ELSE IF static_buf = "garbage" THEN "Utf8" ELSE static_buf]
    /\ pc' = [pc EXCEPT ![t] = "idle"]
    /\ racing' = [racing EXCEPT ![t] = FALSE]
    /\ UNCHANGED <<CRYPT_LOCK, static_buf, arg>>
    /\ UNCHANGED <<sessVars, pamVars, laterVars>>

CryptIdle ==
    /\ CRYPT_LOCK = FALSE
    /\ static_buf = "h1"
    /\ pc = [t \in Threads |-> "idle"]
    /\ arg = [t \in Threads |-> "p1"]
    /\ ret = [t \in Threads |-> "none"]
    /\ racing = [t \in Threads |-> FALSE]

\* ================================================================= mk-pam

\* native status codes (Linux-PAM values of the ffi constants)
PAM_SUCCESS == 0
PAM_BUF_ERR == 5
PAM_AUTH_ERR == 7
PAM_NEW_AUTHTOK_REQD == 12
PAM_ACCT_EXPIRED == 13
PAM_BAD_ITEM == 29
\* a native code for which enum PamError has no variant
UNLISTED_CODE == 32

\* the codes a native call returns to a Handle operation
PamCodes == {PAM_SUCCESS, PAM_AUTH_ERR, PAM_NEW_AUTHTOK_REQD, PAM_ACCT_EXPIRED,
             UNLISTED_CODE}
\* the discriminants of enum PamError among them
PamErrorCodes == {PAM_AUTH_ERR, PAM_NEW_AUTHTOK_REQD, PAM_ACCT_EXPIRED}

\* PamError::try_from(ret) is Ok(e) exactly for a discriminant of the enum
PamError_try_from(r) == r \in PamErrorCodes

\* msg_style of a pam_message; "not_utf8" is a message whose text is null or
\* not UTF-8, "other_style" one whose style tag is none of the four
PromptKinds == {"PAM_PROMPT_ECHO_OFF", "PAM_PROMPT_ECHO_ON"}
ValidKinds == PromptKinds \cup {"PAM_ERROR_MSG", "PAM_TEXT_INFO"}
MsgKinds == ValidKinds \cup {"other_style", "not_utf8"}
Batches == UNION {[1..n -> MsgKinds] : n \in 1..MaxMsgs}

\* a conversation callback `Fn(&Message) -> Option<Response>`, given by the
\* kinds of message it answers with Some
Callbacks == {PromptKinds, ValidKinds}
\* one invocation of it: it returns, returns a text holding a nul, or panics
CallbackOutcomes == {"text", "nul", "panic"}

Responds_All(cb, m) == TRUE
Responds(cb, m) == m \in cb

\* Conversation::add: the smallest non-negative integer not in use
add_Zero(reg) == 0
add(reg) ==
    CHOOSE n \in 0..MaxRegs :
        /\ n \notin DOMAIN reg
        /\ \A m \in 0..(n - 1) : m \in DOMAIN reg

\* Handle::start: `appdata_ptr: { index as *mut c_void }`, read back by the
\* trampoline as `appdata_ptr as c_int`
appdata_ptr_Null(index) == 0
appdata_ptr(index) == index

NoHandle == [live |-> FALSE, index |-> None, last_retcode |-> PAM_SUCCESS]
ConvIdle == [pc |-> "idle", raw_msgs |-> <<>>, i |-> 0, responses |-> <<>>,
             raw_responses |-> <<>>, ret |-> None]

\* Handle::start: register the conversation, pam_start, map its status
HandleStart(t, cb, code, isnull) ==
    /\ ~handle[t].live
    /\ conv[t].pc = "idle"
    /\ conv_lock = 0
    /\ Cardinality(DOMAIN GLOBAL_CONV_PTRS) < MaxRegs
    /\ LET index == add(GLOBAL_CONV_PTRS) IN
         /\ GLOBAL_CONV_PTRS' =
               [k \in (DOMAIN GLOBAL_CONV_PTRS) \cup {index} |->
                   IF k = index THEN cb ELSE GLOBAL_CONV_PTRS[k]]
         /\ handle' = [handle EXCEPT ![t] =
               IF PamError_try_from(code) \/ isnull THEN @
               ELSE [live |-> TRUE, index |-> appdata_ptr(index),
                     last_retcode |-> code]]
    /\ UNCHANGED <<conv_lock, poisoned, conv, op_last, auth_last>>
    /\ UNCHANGED <<sessVars, cryptVars, laterVars>>

\* Handle::end / Drop for Handle: pam_end(interior, last_retcode)
HandleDrop(t) ==
    /\ handle[t].live
    /\ conv[t].pc = "idle"
    /\ handle' = [handle EXCEPT ![t] = NoHandle]
    /\ UNCHANGED <<GLOBAL_CONV_PTRS, conv_lock, poisoned, conv, op_last,
                   auth_last>>
    /\ UNCHANGED <<sessVars, cryptVars, laterVars>>

\* __raw_pam_conv: `GLOBAL_CONV_PTRS.lock().unwrap().get(&appdata_ptr)`; the
\* guard is a temporary of the `if let` and lives until its block is left
ConvLock(t, batch) ==
    /\ conv[t].pc = "idle"
    /\ handle[t].live
    /\ conv_lock = 0
    /\ IF poisoned
       THEN /\ conv' = [conv EXCEPT ![t] = [ConvIdle EXCEPT !.pc = "panicked"]]
            /\ conv_lock' = conv_lock
       ELSE IF handle[t].index \in DOMAIN GLOBAL_CONV_PTRS
       THEN /\ conv' = [conv EXCEPT ![t] =
                  [ConvIdle EXCEPT !.pc = "convert", !.raw_msgs = batch,
                                   !.i = 1]]
            /\ conv_lock' = t
       ELSE /\ conv' = [conv EXCEPT ![t] =
                  [ConvIdle EXCEPT !.pc = "done", !.raw_msgs = batch,
                                   !.i = 1, !.ret = PAM_BAD_ITEM]]
            /\ conv_lock' = conv_lock
    /\ UNCHANGED <<GLOBAL_CONV_PTRS, poisoned, handle, op_last, auth_last>>
    /\ UNCHANGED <<sessVars, cryptVars, laterVars>>

\* __raw_pam_conv, loop body: cstr_to_string of message i, then its style.
\* cstr_to_string is Err for a null text and for one that is not UTF-8, and
\* both take the same arm: "not_utf8" stands for either.
ConvConvert_AnyStyle(t) ==
    /\ conv[t].pc = "convert"
    /\ LET m == conv[t].raw_msgs[conv[t].i] IN
         IF m = "not_utf8"
         THEN /\ conv' = [conv EXCEPT ![t].pc = "done", ![t].ret = PAM_BUF_ERR]
              /\ conv_lock' = conv_lock
         ELSE /\ conv' = [conv EXCEPT ![t].pc = "callback"]
              /\ conv_lock' = conv_lock
    /\ UNCHANGED <<GLOBAL_CONV_PTRS, poisoned, handle, op_last, auth_last>>
    /\ UNCHANGED <<sessVars, cryptVars, laterVars>>
ConvConvert(t) ==
    /\ conv[t].pc = "convert"
    /\ LET m == conv[t].raw_msgs[conv[t].i] IN
         IF m = "not_utf8"
         THEN /\ conv' = [conv EXCEPT ![t].pc = "done", ![t].ret = PAM_BUF_ERR]
              /\ conv_lock' = conv_lock
         ELSE IF m = "other_style"
         THEN /\ conv' = [conv EXCEPT ![t].pc = "done", ![t].ret = PAM_BAD_ITEM]
              /\ conv_lock' = conv_lock
         ELSE /\ conv' = [conv EXCEPT ![t].pc = "callback"]
              /\ conv_lock' = conv_lock
    /\ UNCHANGED <<GLOBAL_CONV_PTRS, poisoned, handle, op_last, auth_last>>
    /\ UNCHANGED <<sessVars, cryptVars, laterVars>>

\* __raw_pam_conv, loop body: `(f.conv)(&msg)`, push of its response, and
\* after the last message the store to *raw_responses
ConvCallback(t, r) ==
    /\ conv[t].pc = "callback"
    /\ LET c == conv[t]
           m == c.raw_msgs[c.i]
           some == Responds(GLOBAL_CONV_PTRS[handle[t].index], m)
           pushed == IF some THEN Append(c.responses, c.i) ELSE c.responses
       IN
         IF r = "panic"
         THEN /\ conv' = [conv EXCEPT ![t].pc = "panicked"]
              /\ conv_lock' = 0
              /\ poisoned' = TRUE
         ELSE IF some /\ r = "nul"
         THEN /\ conv' = [conv EXCEPT ![t].pc = "done", ![t].ret = PAM_BAD_ITEM]
              /\ conv_lock' = conv_lock
              /\ poisoned' = poisoned
         ELSE IF c.i = Len(c.raw_msgs)
         THEN /\ conv' = [conv EXCEPT ![t].pc = "done",
                                      ![t].responses = pushed,
                                      ![t].raw_responses = <<pushed>>,
                                      ![t].ret = PAM_SUCCESS]
              /\ conv_lock' = conv_lock
              /\ poisoned' = poisoned
         ELSE /\ conv' = [conv EXCEPT ![t].pc = "convert",
                                      ![t].responses = pushed,
                                      ![t].i = c.i + 1]
              /\ conv_lock' = conv_lock
              /\ poisoned' = poisoned
    /\ UNCHANGED <<GLOBAL_CONV_PTRS, handle, op_last, auth_last>>
    /\ UNCHANGED <<sessVars, cryptVars, laterVars>>

\* __raw_pam_conv returns ret to the PAM module: the guard is dropped
ConvReturn(t) ==
    /\ conv[t].pc = "done"
    /\ conv' = [conv EXCEPT ![t] = ConvIdle]
    /\ conv_lock' = IF conv_lock = t THEN 0 ELSE conv_lock
    /\ UNCHANGED <<GLOBAL_CONV_PTRS, poisoned, handle, op_last, auth_last>>
    /\ UNCHANGED <<sessVars, cryptVars, laterVars>>

\* Handle::set_item, authenticate, validate, change_auth_token, open_session,
\* close_session: store the status, then
\* `match PamError::try_from(ret) { Ok(e) => Err(e.into()), Err(_) => Ok(()) }`
HandleOps == {"set_item", "authenticate", "validate", "change_auth_token",
              "open_session", "close_session"}
HandleOp(t, op, code) ==
    /\ handle[t].live
    /\ conv[t].pc = "idle"
    /\ handle' = [handle EXCEPT ![t].last_retcode = code]
    /\ op_last' = [op |-> op, code |-> code, ok |-> ~PamError_try_from(code)]
    /\ UNCHANGED <<GLOBAL_CONV_PTRS, conv_lock, poisoned, conv, auth_last>>
    /\ UNCHANGED <<sessVars, cryptVars, laterVars>>

\* PamAuthenticator::authenticate (src/auth/pam.rs): the native calls it
\* makes, each with the status it got, and its result
Call(f, code) == [fn |-> f, ret |-> code]
PamAuthenticator_authenticate_AnyAcctFailure(s, i, a, m, c) ==
    IF s # PAM_SUCCESS
    THEN [calls |-> <<Call("pam_start", s)>>, result |-> "AuthError"]
    ELSE IF i # PAM_SUCCESS
    THEN [calls |-> <<Call("pam_start", s), Call("pam_set_item", i)>>,
          result |-> "AuthError"]
    ELSE IF a # PAM_SUCCESS
    THEN [calls |-> <<Call("pam_start", s), Call("pam_set_item", i),
                      Call("pam_authenticate", a), Call("pam_end", a)>>,
          result |-> "AuthError"]
    ELSE IF m # PAM_SUCCESS
    THEN IF c # PAM_SUCCESS
         THEN [calls |-> <<Call("pam_start", s), Call("pam_set_item", i),
                           Call("pam_authenticate", a), Call("pam_acct_mgmt", m),
                           Call("pam_chauthtok", c), Call("pam_end", c)>>,
               result |-> "AuthError"]
         ELSE [calls |-> <<Call("pam_start", s), Call("pam_set_item", i),
                           Call("pam_authenticate", a), Call("pam_acct_mgmt", m),
                           Call("pam_chauthtok", c)>>,
               result |-> "Ok"]
    ELSE [calls |-> <<Call("pam_start", s), Call("pam_set_item", i),
                      Call("pam_authenticate", a), Call("pam_acct_mgmt", m)>>,
          result |-> "Ok"]
PamAuthenticator_authenticate(s, i, a, m, c) ==
    IF s # PAM_SUCCESS
    THEN [calls |-> <<Call("pam_start", s)>>, result |-> "AuthError"]
    ELSE IF i # PAM_SUCCESS
    THEN [calls |-> <<Call("pam_start", s), Call("pam_set_item", i)>>,
          result |-> "AuthError"]
    ELSE IF a # PAM_SUCCESS
    THEN [calls |-> <<Call("pam_start", s), Call("pam_set_item", i),
                      Call("pam_authenticate", a), Call("pam_end", a)>>,
          result |-> "AuthError"]
    ELSE IF m = PAM_NEW_AUTHTOK_REQD
    THEN IF c # PAM_SUCCESS
         THEN [calls |-> <<Call("pam_start", s), Call("pam_set_item", i),
                           Call("pam_authenticate", a), Call("pam_acct_mgmt", m),
                           Call("pam_chauthtok", c), Call("pam_end", c)>>,
               result |-> "AuthError"]
         ELSE [calls |-> <<Call("pam_start", s), Call("pam_set_item", i),
                           Call("pam_authenticate", a), Call("pam_acct_mgmt", m),
                           Call("pam_chauthtok", c)>>,
               result |-> "Ok"]
    ELSE [calls |-> <<Call("pam_start", s), Call("pam_set_item", i),
                      Call("pam_authenticate", a), Call("pam_acct_mgmt", m)>>,
          result |-> "Ok"]

PamAuthenticate(s, i, a, m, c) ==
    /\ auth_last' = PamAuthenticator_authenticate(s, i, a, m, c)
    /\ UNCHANGED <<GLOBAL_CONV_PTRS, conv_lock, poisoned, handle, conv, op_last>>
    /\ UNCHANGED <<sessVars, cryptVars, laterVars>>

NoOp == [op |-> "none", code |-> PAM_SUCCESS, ok |-> TRUE]
NoAuth == [calls |-> <<>>, result |-> "none"]

\* no Handle was started yet
PamIdle ==
    /\ GLOBAL_CONV_PTRS = <<>>
    /\ conv_lock = 0
    /\ poisoned = FALSE
    /\ handle = [t \in Threads |-> NoHandle]
    /\ conv = [t \in Threads |-> ConvIdle]
    /\ op_last = NoOp
    /\ auth_last = NoAuth

\* thread 1 holds the Handle of one successful Handle::start
PamStarted ==
    /\ GLOBAL_CONV_PTRS = [k \in {0} |-> PromptKinds]
    /\ conv_lock = 0
    /\ poisoned = FALSE
    /\ handle = [t \in Threads |->
                   IF t = 1 THEN [live |-> TRUE, index |-> 0,
                                  last_retcode |-> PAM_SUCCESS]
                   ELSE NoHandle]
    /\ conv = [t \in Threads |-> ConvIdle]
    /\ op_last = NoOp
    /\ auth_last = NoAuth

\* ================================================ local-password authenticators

\* `Duration::from_secs(600)`: how long a validation is remembered
CacheWindow == 600
InstantValues ==
    {t \in 0..MaxInstant : (t % CacheWindow) \in {0, 1, CacheWindow - 1}}
Uids == {0, 1000}
\* Passwd.password: absent, a sentinel, or a hash
Fields == {"none", "*", "x", "hash"}
\* the shadow record of the name: missing, or its password
ShadowRecs == {"missing", "*", "!", "hash"}
\* what the prompt reads: the right password, a wrong one, or a read error
Typed == {"right", "wrong", "fail"}
\* mk_crypt::crypt: a hash, or an FfiError (busy guard, null result)
CryptOutcomes == {"ok", "InvalidPtr"}
AuthKinds == {"passwd", "pwd", "shadow"}

Outcome(p, r, i) == [prompted |-> p, result |-> r, insert |-> i]

\* the hash of the typed password under the stored setting
Computed(typed, stored) ==
    IF typed = "right" /\ stored = "hash" THEN "hash" ELSE "mismatch"

\* `Instant::now() - *u < Duration::from_secs(600)`
CacheHit_Leq(u, t) == u # None /\ t - u <= CacheWindow
CacheHit(u, t) == u # None /\ t - u < CacheWindow

\* passwd.rs: prompt, then `password != mk_crypt::crypt(..)?`
PasswdCompare(stored, typed, cres) ==
    IF typed = "fail" THEN Outcome(TRUE, "Error", FALSE)
    ELSE IF cres # "ok" THEN Outcome(TRUE, "Error", FALSE)
    ELSE IF Computed(typed, stored) = stored THEN Outcome(TRUE, "Ok", TRUE)
    ELSE Outcome(TRUE, "Auth", FALSE)

\* PasswdAuthenticator::authenticate after the cache lookup (lines 39-67)
PasswdAuthenticator_authenticate_NoStar(sdw, field, srec, typed, cres) ==
    IF field = "none" THEN Outcome(FALSE, "Ok", FALSE)
    ELSE IF field = "x" /\ sdw
    THEN IF srec = "missing" THEN Outcome(FALSE, "Ok", FALSE)
         ELSE IF srec \in {"*", "!"} THEN Outcome(FALSE, "Auth", FALSE)
         ELSE PasswdCompare(srec, typed, cres)
    ELSE PasswdCompare(field, typed, cres)
PasswdAuthenticator_authenticate(sdw, field, srec, typed, cres) ==
    IF field = "none" THEN Outcome(FALSE, "Ok", FALSE)
    ELSE IF field = "*" THEN Outcome(FALSE, "Auth", FALSE)
    ELSE IF field = "x" /\ sdw
    THEN IF srec = "missing" THEN Outcome(FALSE, "Ok", FALSE)
         ELSE IF srec \in {"*", "!"} THEN Outcome(FALSE, "Auth", FALSE)
         ELSE PasswdCompare(srec, typed, cres)
    ELSE PasswdCompare(field, typed, cres)

\* pwd.rs: `pwhash::unix::verify(&password_from_tty!(..)?, &password[..])`
PwdCompare_InsertAlways(stored, typed) ==
    IF typed = "fail" THEN Outcome(TRUE, "Error", FALSE)
    ELSE IF Computed(typed, stored) = stored THEN Outcome(TRUE, "Ok", TRUE)
    ELSE Outcome(TRUE, "PermissionDenied", TRUE)
PwdCompare(stored, typed) ==
    IF typed = "fail" THEN Outcome(TRUE, "Error", FALSE)
    ELSE IF Computed(typed, stored) = stored THEN Outcome(TRUE, "Ok", TRUE)
    ELSE Outcome(TRUE, "PermissionDenied", FALSE)

\* PwdAuthenticator::authenticate after the cache lookup (lines 44-96)
PwdAuthenticator_authenticate(shadow, field, srec, typed) ==
    IF field = "none" THEN Outcome(FALSE, "Ok", FALSE)
    ELSE IF field = "*" THEN Outcome(FALSE, "PermissionDenied", FALSE)
    ELSE IF field = "x"
    THEN IF ~shadow THEN Outcome(FALSE, "PermissionDenied", FALSE)
         ELSE IF srec = "missing" THEN Outcome(FALSE, "Error", FALSE)
         ELSE IF srec \in {"*", "!"}
         THEN Outcome(FALSE, "PermissionDenied", FALSE)
         ELSE PwdCompare(srec, typed)
    ELSE PwdCompare(field, typed)

\* shadow.rs: `prompt_password_stdout(..).unwrap()`, then
\* `password != libcrypt_sys::crypt(..)`
ShadowCompare(stored, typed) ==
    IF typed = "fail" THEN Outcome(TRUE, "panic", FALSE)
    ELSE IF Computed(typed, stored) = stored THEN Outcome(TRUE, "Ok", TRUE)
    ELSE Outcome(TRUE, "Err", FALSE)

\* ShadowAuthenticator::authenticate after the cache lookup (lines 45-71)
ShadowAuthenticator_authenticate(field, srec, typed) ==
    IF field = "none" THEN Outcome(FALSE, "Ok", FALSE)
    ELSE IF field = "x"
    THEN IF srec = "missing" THEN Outcome(FALSE, "Err", FALSE)
         ELSE ShadowCompare(srec, typed)
    ELSE IF field = "*" THEN Outcome(FALSE, "Err", FALSE)
    ELSE ShadowCompare(field, typed)

\* the part of authenticate that follows a cache miss, by authenticator
FullCheck(kind, feature, field, srec, typed, cres) ==
    IF kind = "passwd"
    THEN PasswdAuthenticator_authenticate(feature, field, srec, typed, cres)
    ELSE IF kind = "pwd"
    THEN PwdAuthenticator_authenticate(feature, field, srec, typed)
    ELSE ShadowAuthenticator_authenticate(field, srec, typed)

\* one call of authenticate for the identity (uid, field): the cache lookup
\* with its lazy eviction, then the full check and the insert
Authenticate(uid, field, srec, typed, cres) ==
    LET hit == CacheHit(users[uid], inow)
        o == FullCheck(auth_kind, shadow_feature, field, srec, typed, cres)
    IN /\ users' = [users EXCEPT ![uid] =
                       IF hit THEN @
                       ELSE IF o.insert THEN inow ELSE None]
       /\ pw_last' = [uid |-> uid, field |-> field,
                      srec |-> IF field = "x" /\ ~hit THEN srec ELSE "unused",
                      before |-> users[uid], at |-> inow, hit |-> hit,
                      prompted |-> ~hit /\ o.prompted,
                      matched |-> ~hit /\ o.insert,
                      result |-> IF hit THEN "Ok" ELSE o.result]
       /\ UNCHANGED <<auth_kind, shadow_feature, inow>>
       /\ UNCHANGED <<sessVars, cryptVars, pamVars, durVars, storeVars, entVars, appVars>>

\* ShadowAuthenticator::authenticate when `pwd::Passwd::from_uid` finds no
\* entry: Err before the cache is looked at
AuthenticateUnknown(uid) ==
    /\ auth_kind = "shadow"
    /\ pw_last' = [uid |-> uid, field |-> "unknown", srec |-> "unused",
                   before |-> users[uid], at |-> inow, hit |-> FALSE,
                   prompted |-> FALSE, matched |-> FALSE, result |-> "Err"]
    /\ UNCHANGED <<auth_kind, shadow_feature, users, inow>>
    /\ UNCHANGED <<sessVars, cryptVars, pamVars, durVars, storeVars, entVars, appVars>>

\* the monotonic clock moves on
InstantTick(t) ==
    /\ t > inow
    /\ inow' = t
    /\ UNCHANGED <<auth_kind, shadow_feature, users, pw_last>>
    /\ UNCHANGED <<sessVars, cryptVars, pamVars, durVars, storeVars, entVars, appVars>>

NoAuthenticate == [uid |-> None, field |-> "none", srec |-> "unused",
                   before |-> None, at |-> 0, hit |-> FALSE,
                   prompted |-> FALSE, matched |-> FALSE, result |-> "none"]

\* a new authenticator instance of any kind, in a build with or without the
\* shadow feature
AuthInit ==
    /\ auth_kind \in AuthKinds
    /\ shadow_feature \in BOOLEAN
    /\ users = [u \in Uids |-> None]
    /\ inow = 0
    /\ pw_last = NoAuthenticate

AuthFixed ==
    /\ auth_kind = "pwd"
    /\ shadow_feature = TRUE
    /\ users = [u \in Uids |-> None]
    /\ inow = 0
    /\ pw_last = NoAuthenticate


\* ===================================================== session-state file

\* enum DurationResolution: Seconds, Minutes, Days
Resolutions == {1, 60, 86400}
Minutes == 60
\* Option<Duration>: whole seconds and a sub-second part (milliseconds)
NoDuration == [some |-> FALSE, secs |-> 0, subsec |-> 0]
SomeDuration(n, ms) == [some |-> TRUE, secs |-> n, subsec |-> ms]
Durations ==
    {SomeDuration(n, ms) :
        n \in {t \in 0..MaxSecs : (t % Minutes) \in {0, 1, Minutes - 1}},
        ms \in {0, 500}}

\* ser_duration: `(d.as_secs() / res as u64) as i64`, None as -1; the
\* quotient of a u64 by 1, 60 or 86400 here stays far below 2^63
ser_duration_Ceil(d, res) ==
    IF d.some THEN (d.secs + res - 1) \div res ELSE -1
ser_duration(d, res) ==
    IF d.some THEN d.secs \div res ELSE -1

\* de_duration: `Duration::from_secs(val as u64 * res as u64)`
de_duration(val, res) ==
    IF val < 0 THEN NoDuration ELSE SomeDuration(val * res, 0)

DurSer ==
    /\ dur.stage = "in"
    /\ dur' = [dur EXCEPT !.cookie = ser_duration(dur.d, dur.res),
                          !.stage = "ser"]
    /\ UNCHANGED <<sessVars, cryptVars, pamVars, authVars, storeVars, entVars, appVars>>

DurDe ==
    /\ dur.stage = "ser"
    /\ dur' = [dur EXCEPT !.out = de_duration(dur.cookie, dur.res),
                          !.stage = "de"]
    /\ UNCHANGED <<sessVars, cryptVars, pamVars, authVars, storeVars, entVars, appVars>>

DurInit ==
    \E d \in Durations \cup {NoDuration}, r \in Resolutions :
        dur = [d |-> d, res |-> r, cookie |-> 0, out |-> NoDuration,
               stage |-> "in"]

DurFixed ==
    dur = [d |-> NoDuration, res |-> Minutes, cookie |-> 0,
           out |-> NoDuration, stage |-> "in"]

\* State.last_used as seconds since the epoch, None when never validated
ToDuration(ts) == IF ts = None THEN NoDuration ELSE SomeDuration(ts, 0)
\* State::try_dump: the cookie written to the file
try_dump(ts) == ser_duration(ToDuration(ts), Minutes)
\* State::try_recover: the State read from a cookie
try_recover(cookie) ==
    LET d == de_duration(cookie, Minutes)
    IN IF d.some THEN d.secs ELSE None

\* login names and parent pids, as the characters `format!` prints
LoginNames == {<<"a">>, <<"a", "1">>, <<"root">>}
Ppids == {1, 11}
Digit(k) == IF k = 1 THEN "1" ELSE "0"
Display(n) == IF n < 10 THEN <<Digit(n)>> ELSE <<Digit(n \div 10), Digit(n % 10)>>
\* `format!("{}-{}", user.name, parent_id())`
PathOf_NoSeparator(name, ppid) == name \o Display(ppid)
PathOf(name, ppid) == name \o <<"-">> \o Display(ppid)

\* App::new takes the root branch (`uid.is_root()`)
IsRoot(name) == name = <<"root">>
StampValues == {t \in 0..MaxStamp : (t % Minutes) \in {0, Minutes - 1}}
Nothing == -2

\* App::new: root gets a new session; otherwise
\* recover_session_state_or_new reads the file of (name, ppid) if it exists
AppNew(name, ppid) ==
    /\ app.phase = "none"
    /\ LET path == PathOf(name, ppid) IN
         app' = [name |-> name, ppid |-> ppid, phase |-> "new",
                 state |-> IF IsRoot(name) \/ path \notin DOMAIN files
                           THEN None
                           ELSE try_recover(files[path])]
    /\ UNCHANGED <<files, saved>>
    /\ UNCHANGED <<sessVars, cryptVars, pamVars, authVars, durVars, entVars, appVars>>

\* the session of the invocation stamps its State (never under root's
\* policy, which sets no_auth)
AppUse(t) ==
    /\ app.phase \in {"new", "used"}
    /\ ~IsRoot(app.name)
    /\ app' = [app EXCEPT !.state = t, !.phase = "used"]
    /\ UNCHANGED <<files, saved>>
    /\ UNCHANGED <<sessVars, cryptVars, pamVars, authVars, durVars, entVars, appVars>>

\* App::run: `let _ = Self::save_session_state(&self.session)`
AppSave(ok) ==
    /\ app.phase \in {"new", "used"}
    /\ LET path == PathOf(app.name, app.ppid) IN
         IF ok
         THEN /\ files' = [q \in (DOMAIN files) \cup {path} |->
                              IF q = path THEN try_dump(app.state) ELSE files[q]]
              /\ saved' = [saved EXCEPT ![<<app.name, app.ppid>>] = app.state]
         ELSE UNCHANGED <<files, saved>>
    /\ app' = [app EXCEPT !.phase = "none"]
    /\ UNCHANGED <<sessVars, cryptVars, pamVars, authVars, durVars, entVars, appVars>>

\* an empty session directory, no invocation running
StoreIdle ==
    /\ files = <<>>
    /\ saved = [k \in LoginNames \X Ppids |-> Nothing]
    /\ app = [name |-> <<"a">>, ppid |-> 1, phase |-> "none", state |-> None]

\* ================================================ mk-pwd / mk-shadow Entries

\* The password database is the sequence of its records, here numbered in
\* database order.  mk-shadow's Entries::next is the same code over
\* setspent / getspent / endspent.
Database == [i \in 1..MaxEntries |-> i]
NoPasswd == 0
Iterators == 1..NumThreads

\* Entries::new
Entries_new == [pc |-> "idle", index |-> 0, yielded |-> <<>>, ended |-> FALSE]

\* let lock = ENT_LOCK.lock().unwrap();
EntriesLock(t) ==
    /\ entries[t].pc = "idle"
    /\ ENT_LOCK = 0
    /\ ENT_LOCK' = t
    /\ entries' = [entries EXCEPT ![t].pc = "locked"]
    /\ UNCHANGED <<pwent_buf, static_shared>>
    /\ UNCHANGED <<sessVars, cryptVars, pamVars, authVars, durVars, storeVars, appVars>>

\* setpwent(); index + 1 calls of getpwent(), each of which overwrites the
\* static record; a null pointer returns None (the guard is dropped on
\* return), otherwise endpwent(), index += 1 and drop(lock), with ptr still
\* pointing at the static record
EntriesScan(t) ==
    /\ entries[t].pc = "locked"
    /\ ENT_LOCK' = 0
    /\ \/ /\ entries[t].index + 1 > Len(Database)
          /\ pwent_buf' = IF Len(Database) > 0 THEN Database[Len(Database)]
                                               ELSE pwent_buf
          /\ entries' = [entries EXCEPT ![t].pc = "idle", ![t].ended = TRUE]
       \/ /\ entries[t].index + 1 <= Len(Database)
          /\ pwent_buf' = Database[entries[t].index + 1]
          /\ entries' = [entries EXCEPT ![t].pc = "read",
                                        ![t].index = @ + 1]
    /\ UNCHANGED static_shared
    /\ UNCHANGED <<sessVars, cryptVars, pamVars, authVars, durVars, storeVars, appVars>>

\* Some(Passwd::from_raw(ptr)): copies whatever the static record holds now
EntriesRead(t) ==
    /\ entries[t].pc = "read"
    /\ entries' = [entries EXCEPT ![t].pc = "idle",
                                  ![t].yielded = Append(@, pwent_buf)]
    /\ UNCHANGED <<ENT_LOCK, pwent_buf, static_shared>>
    /\ UNCHANGED <<sessVars, cryptVars, pamVars, authVars, durVars, storeVars, appVars>>

\* Passwd::from_uid / from_name under LOCK (not ENT_LOCK): getpwuid may use
\* the record getpwent uses
Passwd_from_uid(e) ==
    /\ pwent_buf' = IF static_shared THEN e ELSE pwent_buf
    /\ UNCHANGED <<ENT_LOCK, static_shared, entries>>
    /\ UNCHANGED <<sessVars, cryptVars, pamVars, authVars, durVars, storeVars, appVars>>

EntInit ==
    /\ ENT_LOCK = 0
    /\ pwent_buf = NoPasswd
    /\ static_shared \in BOOLEAN
    /\ entries = [t \in Iterators |-> Entries_new]

EntIdle ==
    /\ ENT_LOCK = 0
    /\ pwent_buf = NoPasswd
    /\ static_shared = FALSE
    /\ entries = [t \in Iterators |-> Entries_new]

\* ==================================================== recovery of the State

\* the i64 cookies a session file can hold: every sign, the extremes the
\* model's integers reach, and the small counts
MinCookie == -2147483647
Cookies == {MinCookie} \cup ((0 - MaxCookie - 1)..MaxCookie)
Revisions == {"config", "state"}

\* State::try_recover of src/session/config.rs: the cookie counts seconds
State_try_recover_OnlyMinusOne(cookie) == IF cookie = -1 THEN None ELSE cookie
State_try_recover(cookie) == IF cookie < 0 THEN None ELSE cookie

NotRecovered == [rev |-> "none", cookie |-> -1]

\* App::recover_session_state_or_new / UserSession::with_state: the session
\* starts with the State read from the file, by either revision of the
\* reader
Recover(rev, cookie) ==
    /\ last_active' = IF rev = "config" THEN State_try_recover(cookie)
                                        ELSE try_recover(cookie)
    /\ recovered' = [rev |-> rev, cookie |-> cookie]
    /\ last' = [op |-> "recover", target |-> User, at |-> now,
                before |-> last_active, events |-> <<>>, end |-> "Recovered",
                after_validated |-> FALSE]
    /\ UNCHANGED <<now, timeout, no_auth, permitted, all_targets>>
    /\ UNCHANGED <<caller, proc, cmd>>
    /\ UNCHANGED <<cryptVars, pamVars, authVars, durVars, storeVars, entVars>>

\* ================================================ width of the stored cookie

\* The cookie is an i64 and Duration::as_secs a u64.  The model's integers
\* cannot hold 2^63, so the casts are modelled on integers of IntBits bits:
\* unsigned 0..UMax, signed -(IMax + 1)..IMax.
UMax == 2^IntBits - 1
IMax == 2^(IntBits - 1) - 1
\* `x as i64` of a u64 and `x as u64` of an i64: the same bits
as_i64(n) == IF n > IMax THEN n - (UMax + 1) ELSE n
as_u64(n) == IF n < 0 THEN n + (UMax + 1) ELSE n

NoStamp == [kind |-> "None", secs |-> 0]
SomeStamp(n) == [kind |-> "Some", secs |-> n]
Panicked == [kind |-> "panic", secs |-> 0]

\* `SystemTime::UNIX_EPOCH + d`: SystemTime counts seconds in an i64 and the
\* addition panics on overflow
epoch_plus(secs) == IF secs > IMax THEN Panicked ELSE SomeStamp(secs)

\* ser_duration on the whole seconds of Some(d), with the cast
ser_duration_cast_Ceil(secs, res) == as_i64((secs + res - 1) \div res)
ser_duration_cast(secs, res) == as_i64(secs \div res)

\* State::try_dump of a timestamp `secs` seconds after the epoch:
\* config.rs `d.as_secs() as i64`, state.rs ser_duration(.., Minutes)
State_try_dump(rev, secs) ==
    IF rev = "config" THEN as_i64(secs) ELSE ser_duration_cast(secs, Minutes)

\* State::try_recover with the casts: config.rs
\* `UNIX_EPOCH + Duration::from_secs(cookie as u64)`, state.rs de_duration's
\* `val as u64 * res as u64` (an overflowing product panics or wraps,
\* depending on the build) and then the addition to the epoch
State_try_recover_cast(rev, cookie, wraps) ==
    IF cookie < 0 THEN NoStamp
    ELSE IF rev = "config" THEN epoch_plus(as_u64(cookie))
    ELSE IF as_u64(cookie) * Minutes > UMax
         THEN IF wraps THEN epoch_plus((as_u64(cookie) * Minutes) % (UMax + 1))
              ELSE Panicked
         ELSE epoch_plus(as_u64(cookie) * Minutes)

\* a timestamp is dumped, and the record is read back
StampDump(rev, secs) ==
    /\ dur.stage = "in"
    /\ dur' = [stage |-> "ser", rev |-> rev, t |-> secs,
               cookie |-> State_try_dump(rev, secs), out |-> NoStamp]
    /\ UNCHANGED <<sessVars, cryptVars, pamVars, authVars, storeVars, entVars, appVars>>

StampRecover(wraps) ==
    /\ dur.stage = "ser"
    /\ dur' = [dur EXCEPT !.stage = "de",
                          !.out = State_try_recover_cast(dur.rev, dur.cookie, wraps)]
    /\ UNCHANGED <<sessVars, cryptVars, pamVars, authVars, storeVars, entVars, appVars>>

StampReset ==
    /\ dur.stage = "de"
    /\ dur' = [stage |-> "in", rev |-> "none", t |-> 0, cookie |-> 0,
               out |-> NoStamp]
    /\ UNCHANGED <<sessVars, cryptVars, pamVars, authVars, storeVars, entVars, appVars>>

StampInit ==
    dur = [stage |-> "in", rev |-> "none", t |-> 0, cookie |-> 0, out |-> NoStamp]

\* ======================================================= command launching

\* the (uid, gid) of a passwd record
Ids == {[uid |-> u, gid |-> g] : u \in {0, 1000, 1001}, g \in {0, 100, 1000}}

\* std::process::Command with the ids set on it; an id that was not set is
\* inherited from the launching process
Credentials(uid, gid) == [uid |-> uid, gid |-> gid]

\* CommandExecutor::build_cmd: `command.uid(target.uid)` and then
\* `command.uid(target.gid)`; the last uid set is the one used, gid is unset
build_cmd(target, p) == Credentials(target.gid, p.gid)

\* the closure of App::exec (src/cli/app.rs): command.uid(target.uid),
\* command.gid(target.gid)
App_exec(target, p) == Credentials(target.uid, target.gid)

\* Env::exec: command.uid(target.uid), command.gid(target.gid)
Env_exec(target, p) == Credentials(target.uid, target.gid)

CommandPaths == {"build_cmd", "App::exec", "Env::exec"}

\* a command is built for `target` on one of the paths and launched
Launch(path, target) ==
    /\ LET c == IF path = "build_cmd" THEN build_cmd(target, proc)
                ELSE IF path = "App::exec" THEN App_exec(target, proc)
                ELSE Env_exec(target, proc)
       IN cmd' = [path |-> path, uid |-> c.uid, gid |-> c.gid, target |-> target]
    /\ UNCHANGED <<recovered, caller, proc>>
    /\ UNCHANGED <<sessVars, cryptVars, pamVars, authVars, durVars, storeVars,
                   entVars>>

NoCommand == [path |-> "none", uid |-> 0, gid |-> 0,
              target |-> [uid |-> 0, gid |-> 0]]

\* ==================================================== App::new and its policy

\* Permits::root: `all_targets: true, ..Self::default()`
Permits_root == [targets |-> {}, all_targets |-> TRUE]

\* session::Rules::root: the rules of the root identity, no_auth set
Rules_root == [timeout |-> 0, no_auth |-> TRUE]

\* Policy::root
Policy_root == [permits |-> Permits_root, session |-> Rules_root]

Callers == {User, "root"}

\* the policies a configuration file can give a user
Policies ==
    {[permits |-> [targets |-> ts, all_targets |-> a],
      session |-> [timeout |-> m, no_auth |-> n]] :
        ts \in SUBSET {"bob"}, a \in BOOLEAN, m \in Timeouts, n \in BOOLEAN}

\* App::new for a caller whose policy lookup gave `cfg`: root ignores it and
\* gets Policy::root and a new State, anyone else gets cfg and the
\* recovered State
App_new(who, cfg, stamp) ==
    LET policy == IF who = "root" THEN Policy_root ELSE cfg IN
    /\ caller' = who
    /\ permitted' = policy.permits.targets
    /\ all_targets' = policy.permits.all_targets
    /\ timeout' = policy.session.timeout
    /\ no_auth' = policy.session.no_auth
    /\ last_active' = IF who = "root" THEN None ELSE stamp
    /\ last' = [op |-> "new", target |-> who, at |-> now,
                before |-> last_active, events |-> <<>>, end |-> "Ok",
                after_validated |-> FALSE]
    /\ UNCHANGED <<now, recovered, proc, cmd>>
    /\ UNCHANGED <<cryptVars, pamVars, authVars, durVars, storeVars, entVars>>

AppIdle ==
    /\ recovered = NotRecovered
    /\ caller = User
    /\ proc = [uid |-> 0, gid |-> 0]
    /\ cmd = NoCommand

LaterIdle == AuthFixed /\ DurFixed /\ StoreIdle /\ EntIdle /\ AppIdle

\* ========================================================= specifications

Init == SessInit /\ CryptIdle /\ PamIdle /\ LaterIdle

Next ==
    \/ \E target \in Names, vres \in ValidateResults, sres \in SessionResults :
          Run(target, vres, sres)
    \/ \E target \in Names, vres \in ValidateResults, sres \in SessionResults :
          AppExec(target, vres, sres)
    \/ \E target \in Names, ares \in ValidateResults : OldAppExec(target, ares)
    \/ \E target \in Names, ares \in ValidateResults : CommandExec(target, ares)
    \/ \E t \in ClockValues : Tick(t)

Spec == Init /\ [][Next]_vars

InitCrypt == SessFixed /\ CryptIdle /\ PamIdle /\ LaterIdle

NextCrypt ==
    \/ \E t \in Threads, a \in CryptInputs : CryptLoad(t, a)
    \/ \E t \in Threads : CryptStore(t)
    \/ \E t \in Threads : CryptCString(t)
    \/ \E t \in Threads : CryptNativeEnter(t)
    \/ \E t \in Threads, out \in {"ptr", "null"}, junk \in BufValues :
          CryptNativeExit(t, out, junk)
    \/ \E t \in Threads : CryptClear(t)
    \/ \E t \in Threads : CryptReturn(t)

SpecCrypt == InitCrypt /\ [][NextCrypt]_vars

InitConv == SessFixed /\ CryptIdle /\ PamIdle /\ LaterIdle

NextConv ==
    \/ \E t \in Threads, cb \in Callbacks, code \in PamCodes, isnull \in BOOLEAN :
          HandleStart(t, cb, code, isnull)
    \/ \E t \in Threads : HandleDrop(t)
    \/ \E t \in Threads, batch \in Batches : ConvLock(t, batch)
    \/ \E t \in Threads : ConvConvert(t)
    \/ \E t \in Threads, r \in CallbackOutcomes : ConvCallback(t, r)
    \/ \E t \in Threads : ConvReturn(t)

SpecConv == InitConv /\ [][NextConv]_vars

InitPam == SessFixed /\ CryptIdle /\ PamStarted /\ LaterIdle

NextPam ==
    \/ \E t \in Threads, op \in HandleOps, code \in PamCodes :
          HandleOp(t, op, code)
    \/ \E s \in PamCodes, i \in PamCodes, a \in PamCodes, m \in PamCodes,
          c \in PamCodes : PamAuthenticate(s, i, a, m, c)

SpecPam == InitPam /\ [][NextPam]_vars

InitAuth == SessFixed /\ CryptIdle /\ PamIdle /\ AuthInit /\ DurFixed /\ StoreIdle /\ EntIdle /\ AppIdle

NextAuth ==
    \/ \E uid \in Uids, field \in Fields, srec \in ShadowRecs, typed \in Typed,
          cres \in CryptOutcomes : Authenticate(uid, field, srec, typed, cres)
    \/ \E uid \in Uids : AuthenticateUnknown(uid)
    \/ \E t \in InstantValues : InstantTick(t)

SpecAuth == InitAuth /\ [][NextAuth]_vars

InitDur == SessFixed /\ CryptIdle /\ PamIdle /\ AuthFixed /\ DurInit /\ StoreIdle /\ EntIdle /\ AppIdle

NextDur == DurSer \/ DurDe

SpecDur == InitDur /\ [][NextDur]_vars

InitStore == SessFixed /\ CryptIdle /\ PamIdle /\ LaterIdle

NextStore ==
    \/ \E name \in LoginNames, ppid \in Ppids : AppNew(name, ppid)
    \/ \E t \in StampValues : AppUse(t)
    \/ \E ok \in BOOLEAN : AppSave(ok)

SpecStore == InitStore /\ [][NextStore]_vars

InitEnt == SessFixed /\ CryptIdle /\ PamIdle /\ AuthFixed /\ DurFixed /\ StoreIdle /\ EntInit /\ AppIdle

NextEnt ==
    \/ \E t \in Iterators : EntriesLock(t)
    \/ \E t \in Iterators : EntriesScan(t)
    \/ \E t \in Iterators : EntriesRead(t)
    \/ \E e \in 1..Len(Database) : Passwd_from_uid(e)

SpecEnt == InitEnt /\ [][NextEnt]_vars

InitStamp ==
    /\ SessFixed /\ CryptIdle /\ PamIdle
    /\ AuthFixed /\ StampInit /\ StoreIdle /\ EntIdle /\ AppIdle

NextStamp ==
    \/ \E rev \in Revisions, secs \in 0..UMax : StampDump(rev, secs)
    \/ \E wraps \in BOOLEAN : StampRecover(wraps)
    \/ StampReset

SpecStamp == InitStamp /\ [][NextStamp]_vars

InitRoot ==
    /\ now \in ClockValues
    /\ last_active = None
    /\ timeout = 0
    /\ no_auth = FALSE
    /\ permitted = {}
    /\ all_targets = FALSE
    /\ last = NoRecord
    /\ CryptIdle /\ PamIdle /\ LaterIdle

NextRoot ==
    \/ \E who \in Callers, cfg \in Policies, stamp \in RecoveredStamps :
          App_new(who, cfg, stamp)
    \/ \E target \in Names, vres \in ValidateResults, sres \in SessionResults :
          AppExec(target, vres, sres)

SpecRoot == InitRoot /\ [][NextRoot]_vars

InitCmd ==
    /\ SessFixed /\ CryptIdle /\ PamIdle
    /\ AuthFixed /\ DurFixed /\ StoreIdle /\ EntIdle
    /\ recovered = NotRecovered
    /\ caller = User
    /\ proc \in Ids
    /\ cmd = NoCommand

NextCmd == \E path \in CommandPaths, target \in Ids : Launch(path, target)

SpecCmd == InitCmd /\ [][NextCmd]_vars

\* a session of alice, who may run as root, before its State is recovered
InitRecover ==
    /\ now \in ClockValues
    /\ last_active = None
    /\ timeout \in Timeouts
    /\ no_auth \in BOOLEAN
    /\ permitted = {"root"}
    /\ all_targets = FALSE
    /\ last = NoRecord
    /\ CryptIdle /\ PamIdle /\ LaterIdle

NextRecover ==
    \/ \E rev \in Revisions, cookie \in Cookies : Recover(rev, cookie)
    \/ \E target \in Names, vres \in ValidateResults, sres \in SessionResults :
          Run(target, vres, sres)

SpecRecover == InitRecover /\ [][NextRecover]_vars

\* ================================================================= claims

Has(rec, e) == \E i \in 1..Len(rec.events) : rec.events[i] = e
ValidateCalled(rec) == Has(rec, "validate_ok") \/ Has(rec, "validate_fail")
SessionOp == last.op \in {"run", "exec"}
\* the calls of an operation after App::check
Steps(rec) == SelectSeq(rec.events, LAMBDA e : e # "check")
\* the target is one the policy lets the caller become
Allowed(rec) ==
    \/ rec.target = User
    \/ rec.target \in permitted
    \/ (rec.op = "exec" /\ all_targets)
\* the stored timestamp on entry was not older than the refresh interval
Fresh(rec) == rec.before # None /\ ~(rec.at - rec.before > get_timeout)

\* C1: on every path of the tool (App::exec of cli/app.rs, App::exec of
\* app.rs, CommandExecutor::exec_cmd) the command is launched only after the
\* caller was authenticated (or the policy exempts it) and after the caller
\* was checked to be authorized for the target.
CE_C1_LaunchOnlyAfterAuthAndCheck ==
    (last.op \in {"exec", "old_exec", "exec_cmd"} /\ Has(last, "work")) =>
        /\ Has(last, "check")
        /\ \/ Has(last, "validate_ok")
           \/ Has(last, "authenticate_ok")
           \/ no_auth
           \/ Fresh(last)

\* C2: a run for a target that is not the session's own user and is outside
\* the permitted targets, with all-targets false, never calls validate,
\* whatever validate would have answered and whatever the timestamp is.
T_C2_DeniedNeverValidates ==
    (SessionOp /\ last.target # User /\ last.target \notin permitted /\ ~all_targets)
        => ~ValidateCalled(last)

\* a denied run of a session without timestamp and with no_auth false: the
\* run would have had to validate had the target been permitted
W_C2_DeniedUnvalidated ==
    /\ last.op = "run" /\ last.target = "bob" /\ "bob" \notin permitted
    /\ ~all_targets /\ ~no_auth /\ last.before = None
    /\ last.end = "PermissionDenied"

\* C3: whenever run ends in PermissionDenied, the work closure was not
\* invoked (and Authenticator.session was not entered).
T_C3_DeniedNeverWorks ==
    (last.end = "PermissionDenied") => (~Has(last, "work") /\ ~Has(last, "session"))

\* a denied run of a session whose timestamp is fresh
W_C3_DeniedWhileValidated ==
    /\ last.op = "run" /\ last.end = "PermissionDenied" /\ ~no_auth
    /\ last.before # None /\ last.at >= last.before
    /\ last.at - last.before <= get_timeout

T_C5_RevalidationWindow ==
    (SessionOp /\ ~no_auth /\ Allowed(last)) =>
        (ValidateCalled(last) <=>
            (last.before = None \/ last.at - last.before > get_timeout))

\* a run at T + I + 1 that called validate
W_C5_JustStale ==
    /\ last.op = "run" /\ ~no_auth /\ last.before # None
    /\ last.at - last.before = get_timeout + 1
    /\ ValidateCalled(last)

\* C6: when validate is called and fails, run ends with that failure, the
\* work closure is not invoked, Authenticator.session is not entered and the
\* stored timestamp is what it was before the run.
T_C6_FailedValidateAborts ==
    (SessionOp /\ Has(last, "validate_fail")) =>
        /\ last.end = "ValidateFailed"
        /\ ~Has(last, "work")
        /\ ~Has(last, "session")
        /\ last_active = last.before

\* a failed validate of a session holding a stale timestamp
W_C6_FailedWithStaleStamp ==
    /\ last.op = "run" /\ Has(last, "validate_fail")
    /\ last.before # None /\ last.at > last.before
    /\ last_active = last.before

T_C8_NoAuthNeverValidates ==
    (SessionOp /\ no_auth) =>
        /\ ~ValidateCalled(last)
        /\ Allowed(last) => (Steps(last) # <<>> /\ Head(Steps(last)) = "session")

\* a no_auth run on a stale recovered timestamp
W_C8_NoAuthStale ==
    /\ last.op = "run" /\ no_auth /\ Has(last, "session")
    /\ last.before # None /\ last.at - last.before > get_timeout

InGuard == {"cstring", "native", "incall", "clear", "clear_null"}
CE_C10_GuardMutualExclusion ==
    Cardinality({t \in Threads : pc[t] \in InGuard}) <= 1

\* C11: every finished crypt call with nul-free inputs returned the hash of
\* its own inputs or the error of the busy test (InvalidPtr in this code);
\* never a hash another call left in the static buffer, nor its debris.
CE_C11_OwnHashOrBusy ==
    \A t \in Threads :
        (pc[t] = "idle" /\ ret[t] # "none" /\ arg[t] # "nul")
            => ret[t] \in {Hash(arg[t]), "InvalidPtr"}

\* C12: the busy flag is false whenever no call is in progress, whatever
\* the exit path of the calls that have returned.
CE_C12_FlagClearWhenQuiescent ==
    (\A t \in Threads : pc[t] = "idle") => ~CRYPT_LOCK

\* C13: a call that finds the busy flag set returns the dedicated
\* ResourceUnavailable error, which differs from the InvalidPtr of a failed
\* hash.
CE_C13_BusyIsResourceUnavailable ==
    [][\A t \in Threads :
          (pc[t] = "idle" /\ pc'[t] = "idle" /\ CRYPT_LOCK
             /\ <<arg'[t], ret'[t]>> # <<arg[t], ret[t]>>)
                => ret'[t] = "ResourceUnavailable"]_vars

\* C14: the handles of all concurrently live registrations are pairwise
\* distinct and each is still registered; a handle in use is never handed
\* out again.
T_C14_LiveHandlesDistinct ==
    \A t \in Threads :
        handle[t].live =>
            /\ handle[t].index \in DOMAIN GLOBAL_CONV_PTRS
            /\ \A u \in Threads \ {t} :
                  handle[u].live => handle[u].index # handle[t].index

W_C14_TwoLiveRegistrations ==
    /\ handle[1].live /\ handle[2].live
    /\ handle[1].index = 1 /\ handle[2].index = 0

\* C15: the registry holds no entry once the transaction it was made for
\* has ended, so it is empty whenever no Handle is live.
CE_C15_RegistryEmptyWithoutTransaction ==
    (\A t \in Threads : ~handle[t].live) => DOMAIN GLOBAL_CONV_PTRS = {}

\* the positions of the messages of a batch whose kind is in S, ascending
Positions(msgs, S) ==
    LET F[n \in 0..Len(msgs)] ==
            IF n = 0 THEN <<>>
            ELSE IF msgs[n] \in S THEN Append(F[n - 1], n) ELSE F[n - 1]
    IN F[Len(msgs)]

\* C16 as stated: the responses of a completed batch are exactly one per
\* prompt message (echo and no-echo), in message order, and none belongs to
\* a text or error message.
CE_C16_ResponsesArePrompts ==
    \A t \in Threads :
        (conv[t].pc = "done" /\ conv[t].ret = PAM_SUCCESS)
            => conv[t].raw_responses
                  = <<Positions(conv[t].raw_msgs, PromptKinds)>>

\* C16 amended: the responses of a completed batch are exactly one per
\* message the conversation callback answered, in message order (for a
\* callback that answers only prompts: one per prompt); a batch that ends
\* with a failure code hands no response to PAM.
T_C16_ResponsesAreAnswers ==
    \A t \in Threads :
        conv[t].pc = "done" =>
            IF conv[t].ret = PAM_SUCCESS
            THEN conv[t].raw_responses
                    = <<Positions(conv[t].raw_msgs,
                                  GLOBAL_CONV_PTRS[handle[t].index])>>
            ELSE conv[t].raw_responses = <<>>

W_C16_MixedBatchAnswered ==
    \E t \in Threads :
        /\ conv[t].pc = "done" /\ conv[t].ret = PAM_SUCCESS
        /\ conv[t].raw_msgs = <<"PAM_TEXT_INFO", "PAM_PROMPT_ECHO_OFF">>
        /\ GLOBAL_CONV_PTRS[handle[t].index] = PromptKinds
        /\ conv[t].raw_responses = << <<2>> >>

\* C17: no call of the trampoline ends in a panic that unwinds into the
\* native caller.
CE_C17_TrampolineNeverPanics ==
    \A t \in Threads : conv[t].pc # "panicked"

\* C18: the registry lock is not held while a conversation callback runs.
CE_C18_CallbackOutsideLock ==
    \A t \in Threads : conv[t].pc = "callback" => conv_lock # t

\* C19: a Handle operation returns Ok only when the native status is
\* PAM_SUCCESS.
CE_C19_OkOnlyOnSuccess ==
    (op_last.op # "none" /\ op_last.ok) => op_last.code = PAM_SUCCESS

\* the status the authenticator got from native call f (None: not called)
StatusOf(rec, f) ==
    LET S == {k \in 1..Len(rec.calls) : rec.calls[k].fn = f}
    IN IF S = {} THEN None ELSE rec.calls[CHOOSE k \in S : TRUE].ret

\* C20: PamAuthenticator::authenticate succeeds only if pam_authenticate
\* succeeded and pam_acct_mgmt succeeded, or pam_acct_mgmt asked for a new
\* token and pam_chauthtok then succeeded.
CE_C20_AccountCheckGates ==
    auth_last.result = "Ok" =>
        /\ StatusOf(auth_last, "pam_authenticate") = PAM_SUCCESS
        /\ \/ StatusOf(auth_last, "pam_acct_mgmt") = PAM_SUCCESS
           \/ /\ StatusOf(auth_last, "pam_acct_mgmt") = PAM_NEW_AUTHTOK_REQD
              /\ StatusOf(auth_last, "pam_chauthtok") = PAM_SUCCESS

\* the results with which a local-password authenticator rejects a login
AuthFailures == {"Auth", "PermissionDenied", "Err"}

\* C21 as stated: whatever was authenticated before, authenticate for an
\* identity whose password field is `*` fails and does not prompt.
CE_C21_StarAlwaysFails ==
    pw_last.field = "*" =>
        (pw_last.result \in AuthFailures /\ ~pw_last.prompted)

\* C21 amended: authenticate for an identity whose password field is `*`
\* never prompts, and it fails unless the cache still holds a validation of
\* the same uid less than 600 s old, which is answered with success first.
T_C21_StarFailsUnlessCached ==
    pw_last.field = "*" =>
        /\ ~pw_last.prompted
        /\ IF pw_last.before # None /\ pw_last.at - pw_last.before < CacheWindow
           THEN pw_last.result = "Ok"
           ELSE pw_last.result \in AuthFailures

W_C21_StarAfterExpiredEntry ==
    /\ pw_last.field = "*"
    /\ pw_last.before # None /\ ~pw_last.hit
    /\ pw_last.result \in AuthFailures /\ ~pw_last.prompted

\* C22: for an identity with a password field, success means that the
\* hash of the prompted password equalled the stored hash, or that a cached
\* validation was still valid.
CE_C22_SuccessOnlyOnEqualHash ==
    (pw_last.field \in Fields \ {"none"} /\ pw_last.result = "Ok")
        => (pw_last.hit \/ pw_last.matched)

\* the authenticator looks `x` up in the shadow database
HasShadow == auth_kind = "shadow" \/ shadow_feature

\* C23: for the password field `x` a shadow password of `*` or `!` fails
\* without a prompt, and without shadow support `x` itself is a disallowed
\* login.
CE_C23_ShadowSentinels ==
    (pw_last.field = "x" /\ ~pw_last.hit) =>
        IF HasShadow
        THEN pw_last.srec \in {"*", "!"}
                => (pw_last.result \in AuthFailures /\ ~pw_last.prompted)
        ELSE pw_last.result \in AuthFailures /\ ~pw_last.prompted

T_C25_RoundTrip ==
    dur.stage = "de" =>
        IF dur.d.some
        THEN /\ dur.cookie >= 0
             /\ dur.out = SomeDuration(dur.d.secs - (dur.d.secs % dur.res), 0)
             /\ (dur.d.secs % dur.res = 0 /\ dur.d.subsec = 0)
                   => dur.out = dur.d
        ELSE dur.cookie < 0 /\ dur.out = NoDuration

W_C25_TruncatedToDay ==
    /\ dur.stage = "de" /\ dur.res = 86400
    /\ dur.d = SomeDuration(86401, 0)
    /\ dur.out = SomeDuration(86400, 0)

\* a State as it comes back from the file: whole minutes
Truncated(ts) == IF ts = None THEN None ELSE ts - (ts % Minutes)

\* C26: a new invocation starts from the State most recently saved under
\* its own (login name, parent pid), as the file holds it, and from the
\* never-validated State when nothing was saved under that key, whatever
\* was saved under other keys.
T_C26_StateScopedToKey ==
    app.phase = "new" =>
        app.state = IF saved[<<app.name, app.ppid>>] = Nothing THEN None
                    ELSE Truncated(saved[<<app.name, app.ppid>>])

W_C26_OtherKeyIgnored ==
    /\ app.phase = "new" /\ app.name = <<"a">> /\ app.ppid = 11
    /\ app.state = None
    /\ saved[<< <<"a", "1">>, 1 >>] = 60

\* C27: concurrently advanced Entries iterators each yield every database
\* entry exactly once and in database order; the i-th record an iterator
\* yields is the database's i-th entry, and an iterator that has returned
\* None has yielded them all.
CE_C27_EachYieldsOwnEntries ==
    \A t \in Iterators :
        /\ Len(entries[t].yielded) <= Len(Database)
        /\ \A i \in 1..Len(entries[t].yielded) :
               entries[t].yielded[i] = Database[i]
        /\ (entries[t].ended /\ entries[t].pc = "idle")
               => Len(entries[t].yielded) = Len(Database)

Count(rec, e) == Cardinality({i \in 1..Len(rec.events) : rec.events[i] = e})

\* C28: a run whose target is permitted and whose validation was not
\* needed or succeeded enters Authenticator.session once, invokes the work
\* closure exactly once after it, and ends with work's own result (Ok or
\* Err).
CE_C28_WorkExactlyOnce ==
    (last.op = "run" /\ last.end \notin {"PermissionDenied", "ValidateFailed"}) =>
        /\ Count(last, "session") = 1
        /\ Count(last, "work") = 1
        /\ last.events[Len(last.events)] = "work"
        /\ last.end \in {"Ok(Ok)", "Ok(Err)"}

Malformed(m) == m \in {"not_utf8", "other_style"}
HasMalformed(msgs) == \E k \in 1..Len(msgs) : Malformed(msgs[k])

\* C29: a trampoline call that ends on a protocol error (a message whose
\* text is null or not UTF-8, a message of an unrecognized style, a response
\* with an interior nul, an unregistered context word) returns the buffer
\* error or the bad item code, never the success code, and has not written
\* the response output array; a batch with a malformed message never ends in
\* success.
T_C29_ProtocolErrorIsFailure ==
    \A t \in Threads :
        conv[t].pc = "done" =>
            /\ (HasMalformed(conv[t].raw_msgs)
                 \/ handle[t].index \notin DOMAIN GLOBAL_CONV_PTRS)
                   => conv[t].ret # PAM_SUCCESS
            /\ conv[t].ret # PAM_SUCCESS =>
                   /\ conv[t].ret \in {PAM_BUF_ERR, PAM_BAD_ITEM}
                   /\ conv[t].raw_responses = <<>>
            /\ (conv[t].ret = PAM_BUF_ERR) =>
                   conv[t].raw_msgs[conv[t].i] = "not_utf8"

W_C29_BadStyleAfterPrompt ==
    \E t \in Threads :
        /\ conv[t].pc = "done"
        /\ conv[t].raw_msgs = <<"PAM_PROMPT_ECHO_OFF", "other_style">>
        /\ conv[t].i = 2
        /\ conv[t].ret = PAM_BAD_ITEM
        /\ conv[t].raw_responses = <<>>

\* C30: every message of a batch is converted before the callback is
\* invoked: a call on a batch with a malformed message ends at the first
\* message, without the callback having been invoked and with no response
\* collected.
CE_C30_ConvertBeforeCallback ==
    \A t \in Threads :
        (conv[t].pc = "done" /\ HasMalformed(conv[t].raw_msgs)) =>
            /\ conv[t].i = 1
            /\ Malformed(conv[t].raw_msgs[1])
            /\ conv[t].responses = <<>>

\* the native calls of a record other than pam_end, in call order
NativeOrder(rec) ==
    LET F[n \in 0..Len(rec.calls)] ==
            IF n = 0 THEN <<>>
            ELSE IF rec.calls[n].fn = "pam_end" THEN F[n - 1]
                 ELSE Append(F[n - 1], rec.calls[n].fn)
    IN F[Len(rec.calls)]
ValidationOrder == <<"pam_start", "pam_set_item", "pam_authenticate",
                     "pam_acct_mgmt", "pam_chauthtok">>
Called(rec, f) == StatusOf(rec, f) # None

\* C31: the native calls of PAM validation are made in the order start, set
\* item, authenticate, account check, token change, each at most once and
\* none skipped; the account check is made only after authenticate
\* succeeded, and the token change only when the account check returned
\* PAM_NEW_AUTHTOK_REQD.
T_C31_ValidationOrder ==
    auth_last.result # "none" =>
        /\ Len(NativeOrder(auth_last)) \in 1..Len(ValidationOrder)
        /\ NativeOrder(auth_last) =
               SubSeq(ValidationOrder, 1, Len(NativeOrder(auth_last)))
        /\ Called(auth_last, "pam_acct_mgmt") =>
               StatusOf(auth_last, "pam_authenticate") = PAM_SUCCESS
        /\ Called(auth_last, "pam_chauthtok") =>
               StatusOf(auth_last, "pam_acct_mgmt") = PAM_NEW_AUTHTOK_REQD

W_C31_TokenChangeAfterAccountCheck ==
    /\ NativeOrder(auth_last) = ValidationOrder
    /\ StatusOf(auth_last, "pam_acct_mgmt") = PAM_NEW_AUTHTOK_REQD
    /\ auth_last.result = "Ok"

\* C38: a transaction that PamAuthenticator::authenticate started (pam_start
\* returned PAM_SUCCESS) is ended before authenticate returns: pam_end is
\* its last native call, on success and on every failure.
CE_C38_TransactionAlwaysEnded ==
    (auth_last.result # "none"
        /\ StatusOf(auth_last, "pam_start") = PAM_SUCCESS) =>
        auth_last.calls[Len(auth_last.calls)].fn = "pam_end"

\* C32: a session recovered from a negative cookie has no timestamp, and
\* the first run after that recovery, when no_auth is false and the target
\* is permitted, calls validate first and invokes work only if validate
\* succeeded.
T_C32_NegativeCookieRevalidates ==
    [][/\ (last'.op = "recover" /\ recovered'.cookie < 0) => last_active' = None
       /\ (/\ last.op = "recover" /\ recovered.cookie < 0
           /\ last'.op = "run" /\ ~no_auth
           /\ last'.end # "PermissionDenied") =>
              /\ last'.events # <<>>
              /\ last'.events[1] \in {"validate_ok", "validate_fail"}
              /\ Has(last', "work") => last'.events[1] = "validate_ok"]_vars

W_C32_RunAfterNegativeCookie ==
    /\ recovered.cookie = 0 - 2
    /\ last.op = "run" /\ last.before = None /\ ~no_auth
    /\ last.events = <<"validate_ok", "session", "work">>

\* C33: a launched command runs with the target's credentials on every
\* command-building path: its uid is the target's uid and its gid the
\* target's gid.
CE_C33_TargetCredentials ==
    cmd.path # "none" =>
        /\ cmd.uid = cmd.target.uid
        /\ cmd.gid = cmd.target.gid

\* the io::ErrorKind an ending can carry: the permission tests of App::check
\* and UserSession::run, and the rejections of the local-password session's
\* own authenticate step (`*`, `x`, `!`, a wrong password; or a prompt error)
ErrorKinds(end) ==
    IF end = "PermissionDenied" THEN {"PermissionDenied"}
    ELSE IF end = "SessionFailed" THEN {"PermissionDenied", "Other"}
    ELSE IF end = "ValidateFailed" THEN {"PermissionDenied", "Other"}
    ELSE {}

\* C34: when the caller is root the configuration is ignored: the policy is
\* the root policy (all targets, no_auth), and no exec of root, for any
\* target, is denied with PermissionDenied or calls validate.
CE_C34_RootNeverDenied ==
    caller = "root" =>
        /\ all_targets /\ no_auth
        /\ last.op = "exec" =>
               /\ "PermissionDenied" \notin ErrorKinds(last.end)
               /\ ~ValidateCalled(last)

\* C35: a run with no_auth false invokes work only if validate succeeded in
\* this run or the stored timestamp t satisfies 0 <= now - t <= timeout; a
\* stored timestamp later than the clock does not skip validation.
CE_C35_FutureStampRevalidates ==
    (last.op = "run" /\ ~no_auth /\ Has(last, "work")) =>
        \/ Has(last, "validate_ok")
        \/ /\ last.before # None
           /\ 0 <= last.at - last.before
           /\ last.at - last.before <= get_timeout

\* the call recorded in r was a real password check that succeeded: not a
\* cache hit, the identity has a hash (its own or its shadow record's), the
\* password was prompted for and the call returned Ok
RealCheck(r) ==
    /\ ~r.hit /\ r.prompted /\ r.result = "Ok"
    /\ r.field = "hash" \/ (r.field = "x" /\ r.srec = "hash")

\* C36: the cache entry of a uid is written only by a call for that uid
\* whose password-hash comparison succeeded, with the time of that call; any
\* other change of an entry is its eviction by a call for that uid that was
\* not a cache hit.  A failed comparison, a sentinel rejection, a trivial
\* success and a cache hit neither insert nor refresh.
T_C36_EntryOnlyFromRealCheck ==
    [][\A u \in Uids :
          users'[u] # users[u] =>
              /\ pw_last'.uid = u /\ pw_last'.at = inow /\ ~pw_last'.hit
              /\ IF RealCheck(pw_last') THEN users'[u] = inow
                                        ELSE users'[u] = None]_vars

W_C36_HitKeepsAge ==
    /\ pw_last.hit /\ pw_last.result = "Ok"
    /\ pw_last.at > pw_last.before
    /\ users[pw_last.uid] = pw_last.before

\* the resolution unit of a revision's record, in seconds
UnitOf(rev) == IF rev = "config" THEN 1 ELSE Minutes

\* C37: the timestamp recovered from the dumped record of a timestamp t is
\* never later than t and is earlier than t by less than one resolution
\* unit; for a t whose second count fits the signed cookie a timestamp is
\* recovered, and for one that does not fit nothing later or wrapped-around
\* comes back (no timestamp at all, or t itself truncated).
T_C37_DumpNeverExtends ==
    dur.stage = "de" =>
        /\ dur.out.kind = "Some" =>
               /\ dur.out.secs <= dur.t
               /\ dur.t - dur.out.secs < UnitOf(dur.rev)
        /\ dur.t <= IMax => dur.out.kind = "Some"

W_C37_TruncatedMinute ==
    /\ dur.stage = "de" /\ dur.rev = "state"
    /\ dur.t = IMax /\ dur.out.kind = "Some"
    /\ dur.out.secs = IMax - (IMax % Minutes)
    /\ dur.out.secs < dur.t

====
